---- MODULE Spec2Model ----
(***************************************************************************)
(* Model of "New Code/preprocess.py": event based trial segmentation       *)
(* (get_moabb_data_handmade, get_trial_handmade, divide_by_event), the    *)
(* short-time Fourier transform (compute_stft) and the per label / per    *)
(* channel averaging of the visualizer (extract_data_to_plot).            *)
(*                                                                         *)
(* A numpy array is a record [shape, data]: its shape and its elements in *)
(* C order.  A call that can raise returns a record whose field "status"  *)
(* is "ok" or the name of the exception.                                  *)
(***************************************************************************)
EXTENDS Integers, Sequences, FiniteSets, TLC

\* ------------------------------------------------------------------ bounds
MaxSamples == 4
MaxRunSamples == 3
MaxEvents == 2
MaxLenNum == 3
MaxPlotTrials == 3
MaxStftSamples == 6
MaxStftFreq == 4
FloatBits == 3
TimeDen == 2

VARIABLES
    pc,          \* position of the call in progress
    config,      \* the configuration dictionary (a function of its keys)
    raw_run,     \* divide_by_event: the run it is given
    events,      \* divide_by_event: the onsets it is given
    ragged,      \* the numpy in use builds object arrays from ragged lists
    raw_data,    \* get_trial_handmade: the session, its runs in order
    run_i,       \* get_trial_handmade: number of runs iterated
    trials_matrix_list, \* get_trial_handmade: one trial tensor per run
    label_list,  \* get_trial_handmade: one label array per run
    n_trials,    \* get_trial_handmade: events counted so far
    freq_read,   \* the config['sampling_freq'] each divide_by_event call was given
    dataset,     \* the moabb dataset object: its class name and what it holds
    paradigm,    \* the moabb paradigm object of get_moabb_data_automatic
    type_dataset, \* 'train', 'test' or another string
    fetched,     \* data has been fetched from the dataset
    raw_dataset, \* get_moabb_data_handmade: subject -> session name -> runs
    subject_i,   \* get_moabb_data_handmade: number of subjects iterated
    trials_per_subject, \* get_moabb_data_handmade: one trial tensor per subject
    labels_per_subject, \* get_moabb_data_handmade: one label array per subject
    ch_list,     \* get_moabb_data_handmade: <<>> while unbound, else <<the names>>
    plot_data,   \* extract_data_to_plot: data, [trials x channels x samples]
    plot_labels, \* extract_data_to_plot: label_list, one label per trial
    plot_ch_list, \* extract_data_to_plot: ch_list, a list or an array of names
    plot_config, \* extract_data_to_plot: config (config_plot())
    perm,        \* a reordering of the trials
    extracted_data, \* <<>>, or <<what extract_data_to_plot returned>>
    extracted_perm, \* the same for the reordered trials and labels
    stft_trials, \* compute_stft: trials_matrix, [trials x channels x samples]
    stft_freq,   \* compute_stft: sampling_freq
    stft_out,    \* <<>>, or <<what compute_stft returned>>
    result       \* what the call returned or raised

vars == <<pc, config, raw_run, events, ragged, raw_data, run_i,
          trials_matrix_list, label_list, n_trials, freq_read,
          dataset, paradigm, type_dataset, fetched, raw_dataset, subject_i,
          trials_per_subject, labels_per_subject, ch_list,
          plot_data, plot_labels, plot_ch_list, plot_config, perm,
          extracted_data, extracted_perm, stft_trials, stft_freq, stft_out, result>>

stftVars == <<stft_trials, stft_freq, stft_out>>

plotVars == <<plot_data, plot_labels, plot_ch_list, plot_config, perm,
              extracted_data, extracted_perm>>

dataVars == <<dataset, paradigm, type_dataset, fetched, raw_dataset, subject_i,
              trials_per_subject, labels_per_subject, ch_list>>

trialVars == <<raw_data, run_i, trials_matrix_list, label_list, n_trials, freq_read>>

Idle == "idle"

\* ------------------------------------------------------- generic helpers
Max(a, b) == IF a >= b THEN a ELSE b
Min(a, b) == IF a <= b THEN a ELSE b

RECURSIVE Prod(_)
Prod(s) == IF s = <<>> THEN 1 ELSE Head(s) * Prod(Tail(s))

RECURSIVE Concat(_)
Concat(ss) == IF ss = <<>> THEN <<>> ELSE Head(ss) \o Concat(Tail(ss))

\* ------------------------------------------------------------ numpy model
Ok(v) == [status |-> "ok", value |-> v]
Raise(e) == [status |-> e]

NdArray(shape, data) == [shape |-> shape, data |-> data]

\* start:stop of a Python slice over an axis of length n (negative indices
\* count from the end, out-of-range bounds are clamped)
PyIndex(n, k) == IF k < 0 THEN Max(0, k + n) ELSE Min(k, n)
PySliceLen(n, start, stop) == Max(0, PyIndex(n, stop) - PyIndex(n, start))

\* a[:, start:stop] for a two dimensional array
SliceCols(a, start, stop) ==
    LET C == a.shape[1]
        T == a.shape[2]
        lo == PyIndex(T, start)
        n == PySliceLen(T, start, stop)
    IN NdArray(<<C, n>>,
               [k \in 1..(C * n) |-> a.data[((k - 1) \div n) * T + lo + ((k - 1) % n) + 1]])

\* a[start:stop] along the first axis
SliceFirst(a, start, stop) ==
    LET n0 == a.shape[1]
        rest == Prod(Tail(a.shape))
        lo == PyIndex(n0, start)
        n == PySliceLen(n0, start, stop)
    IN NdArray(<<n>> \o Tail(a.shape), SubSeq(a.data, lo * rest + 1, (lo + n) * rest))

\* a[:, start:stop, :] for a three dimensional array
SliceSecond(a, start, stop) ==
    LET N == a.shape[1]
        C == a.shape[2]
        T == a.shape[3]
        lo == PyIndex(C, start)
        n == PySliceLen(C, start, stop)
    IN NdArray(<<N, n, T>>,
               [k \in 1..(N * n * T) |->
                   a.data[((k - 1) \div (n * T)) * (C * T) + lo * T + ((k - 1) % (n * T)) + 1]])

Homogeneous(list) == \A i \in 1..Len(list) : list[i].shape = list[1].shape
SameFirstDim(list) == \A i \in 1..Len(list) : list[i].shape[1] = list[1].shape[1]

\* np.asarray(list of arrays).  A ragged list raises ValueError, except
\* that a numpy older than 1.24 (ragged_object) builds a one dimensional
\* array of objects when the first dimensions of the elements differ.
NpAsarray(list, ragged_object) ==
    IF list = <<>> THEN Ok(NdArray(<<0>>, <<>>))
    ELSE IF Homogeneous(list)
         THEN Ok(NdArray(<<Len(list)>> \o list[1].shape,
                         Concat([i \in 1..Len(list) |-> list[i].data])))
    ELSE IF ragged_object /\ ~SameFirstDim(list)
         THEN Ok(NdArray(<<Len(list)>>, list))
    ELSE Raise("ValueError")

\* ndarray.resize(new_shape): same elements in C order, cut or zero filled
NpResize(a, shape) ==
    NdArray(shape, [k \in 1..Prod(shape) |-> IF k <= Len(a.data) THEN a.data[k] ELSE 0])

\* -------------------------------------------------------------- recording
\* One run: an mne Raw object.  Sample (c, s) of run `id` holds the value
\* SampleValue(id, c, s) before filtering and Filtered(that) after.
SampleValue(id, c, s) == 10000 * id + 100 * c + s + 1
Filtered(v) == 0 - v

RawGetData(raw) ==
    NdArray(<<raw.n_ch, raw.n_samples>>,
            [k \in 1..(raw.n_ch * raw.n_samples) |->
                LET v == SampleValue(raw.id, (k - 1) \div raw.n_samples, (k - 1) % raw.n_samples)
                IN IF raw.filtered THEN Filtered(v) ELSE v])

RawFilter(raw) == [raw EXCEPT !.filtered = TRUE]

\* the montage of BNCI2014001: 22 EEG channels, 3 EOG channels, the stim channel
ChannelNames ==
    <<"Fz", "FC3", "FC1", "FCz", "FC2", "FC4", "C5", "C3", "C1", "Cz", "C2", "C4", "C6",
      "CP3", "CP1", "CPz", "CP2", "CP4", "P1", "Pz", "P2", "POz",
      "EOG1", "EOG2", "EOG3", "stim">>

ChNames(raw) == SubSeq(ChannelNames, 1, raw.n_ch)

\* int(config['sampling_freq'] * config['length_trial']); length_trial is
\* the rational length_num / TimeDen
TrialSamples(sampling_freq, length_num) == (sampling_freq * length_num) \div TimeDen

\* ------------------------------------------------------- divide_by_event
\* run_data[:, events[i]:-1] for the last event, run_data[:, events[i]:events[i + 1]]
\* for the others (i counts from 1 here)
EventWindow(run_data, ev, i) ==
    IF i = Len(ev)
    THEN SliceCols(run_data, ev[i], -1)
    ELSE SliceCols(run_data, ev[i], ev[i + 1])

\* the window kept whole, the cut to the trial length forgotten
ActualTrialUncut(trial, cfg) == trial

\* trial[:, 0:int(config['sampling_freq'] * config['length_trial'])]
ActualTrial(trial, cfg) ==
    SliceCols(trial, 0, TrialSamples(cfg.sampling_freq, cfg.length_trial))

divide_by_event(run, ev, cfg, ragged_object) ==
    LET run_data == RawGetData(run)
    IN IF ev # <<>> /\ "sampling_freq" \notin DOMAIN cfg
       THEN Raise("KeyError")
       ELSE NpAsarray([i \in 1..Len(ev) |->
                          ActualTrial(EventWindow(run_data, ev, i), cfg)],
                      ragged_object)

\* ---------------------------------------------------- get_trial_handmade
\* mne.find_events(raw): rows of (sample, previous value, label)
FindEvents(raw) == [i \in 1..Len(raw.onsets) |-> <<raw.onsets[i], 0, raw.labels[i]>>]

DictSet(d, key, value) == (key :> value) @@ d

\* The state of one call: st.raw_data (the runs, filtered in place),
\* st.config, the two lists, the counter and the last run bound to
\* raw_data_actual_run (<<>> while unbound).
TrialState(session, cfg) ==
    [raw_data |-> session, config |-> cfg, trials_matrix_list |-> <<>>,
     label_list |-> <<>>, n_trials |-> 0, raw_data_actual_run |-> <<>>,
     freq_read |-> <<>>, status |-> "ok"]

\* lines 115-117: the run's rate goes into config before the run is cut
SetSamplingFreq(cfg, run) == DictSet(cfg, "sampling_freq", run.sfreq)

\* what divide_by_event finds under config['sampling_freq']
FreqSeen(cfg) ==
    IF "sampling_freq" \in DOMAIN cfg
    THEN [present |-> TRUE, value |-> cfg.sampling_freq]
    ELSE [present |-> FALSE, value |-> 0]

\* the iteration with the rate stored after the run is cut instead of before
TrialLoopBodyLateWrite(st, r, ragged_object) ==
    LET raw_info == FindEvents(st.raw_data[r])
        ev == [i \in 1..Len(raw_info) |-> raw_info[i][1]]
        raw_labels == NdArray(<<Len(raw_info)>>, [i \in 1..Len(raw_info) |-> raw_info[i][3]])
        run == IF st.config.filter_data THEN RawFilter(st.raw_data[r]) ELSE st.raw_data[r]
        trials == divide_by_event(run, ev, st.config, ragged_object)
        st1 == [st EXCEPT !.raw_data[r] = run,
                          !.config = SetSamplingFreq(st.config, st.raw_data[r]),
                          !.raw_data_actual_run = <<run>>,
                          !.freq_read = Append(@, FreqSeen(st.config))]
    IN IF trials.status # "ok"
       THEN [st1 EXCEPT !.status = trials.status]
       ELSE [st1 EXCEPT !.trials_matrix_list = Append(@, trials.value),
                        !.label_list = Append(@, raw_labels),
                        !.n_trials = @ + Len(raw_labels.data)]

\* lines 106-131: one iteration of the loop over the runs
TrialLoopBody(st, r, ragged_object) ==
    LET raw_info == FindEvents(st.raw_data[r])
        ev == [i \in 1..Len(raw_info) |-> raw_info[i][1]]
        raw_labels == NdArray(<<Len(raw_info)>>, [i \in 1..Len(raw_info) |-> raw_info[i][3]])
        cfg == SetSamplingFreq(st.config, st.raw_data[r])
        run == IF cfg.filter_data THEN RawFilter(st.raw_data[r]) ELSE st.raw_data[r]
        trials == divide_by_event(run, ev, cfg, ragged_object)
        st1 == [st EXCEPT !.raw_data[r] = run, !.config = cfg,
                          !.raw_data_actual_run = <<run>>,
                          !.freq_read = Append(@, FreqSeen(cfg))]
    IN IF trials.status # "ok"
       THEN [st1 EXCEPT !.status = trials.status]
       ELSE [st1 EXCEPT !.trials_matrix_list = Append(@, trials.value),
                        !.label_list = Append(@, raw_labels),
                        !.n_trials = @ + Len(raw_labels.data)]

\* lines 133-140: the lists become arrays, resized to one row per trial
TrialFinish(st, ragged_object) ==
    LET tm == NpAsarray(st.trials_matrix_list, ragged_object)
        lb == NpAsarray(st.label_list, ragged_object)
    IN IF tm.status # "ok" THEN Raise(tm.status)
       ELSE IF lb.status # "ok" THEN Raise(lb.status)
       ELSE IF Len(tm.value.shape) < 4 THEN Raise("IndexError")
       ELSE IF st.raw_data_actual_run = <<>> THEN Raise("UnboundLocalError")
       ELSE [status |-> "ok",
             trials_matrix |-> NpResize(tm.value, <<st.n_trials, tm.value.shape[3],
                                                    tm.value.shape[4]>>),
             labels |-> NpResize(lb.value, <<st.n_trials>>),
             ch_names |-> ChNames(st.raw_data_actual_run[1])]

RECURSIVE TrialLoop(_, _, _)
TrialLoop(st, r, ragged_object) ==
    IF r > Len(st.raw_data) \/ st.status # "ok" THEN st
    ELSE TrialLoop(TrialLoopBody(st, r, ragged_object), r + 1, ragged_object)

\* the whole call: the result and the config and runs it leaves behind
get_trial_handmade(session, cfg, ragged_object) ==
    LET st == TrialLoop(TrialState(session, cfg), 1, ragged_object)
    IN [result |-> IF st.status # "ok" THEN Raise(st.status)
                   ELSE TrialFinish(st, ragged_object),
        config |-> st.config, raw_data |-> st.raw_data, freq_read |-> st.freq_read]

\* ----------------------------------------------- get_moabb_data_handmade
DataChannels == 22

\* 'BNCI2014001' in str(type(dataset)), over the class names of moabb.datasets
ClassNames == {"BNCI2014001", "BNCI2014004"}
IsBNCI2014001(ds) == ds.class_name \in {"BNCI2014001"}

\* the trial tensor cut to the data channels, the list of names left whole
SelectChannelsNamesKept(ds, seg) ==
    IF IsBNCI2014001(ds)
    THEN [trials_matrix |-> SliceSecond(seg.trials_matrix, 0, DataChannels),
          ch_list |-> seg.ch_names]
    ELSE [trials_matrix |-> seg.trials_matrix, ch_list |-> seg.ch_names]

\* lines 82-85: keep only the data channels of dataset 2a
SelectChannels(ds, seg) ==
    IF IsBNCI2014001(ds)
    THEN [trials_matrix |-> SliceSecond(seg.trials_matrix, 0, DataChannels),
          ch_list |-> SubSeq(seg.ch_names, 1, PyIndex(Len(seg.ch_names), DataChannels))]
    ELSE [trials_matrix |-> seg.trials_matrix, ch_list |-> seg.ch_names]

\* lines 75-78: the session of the subject for the split asked for
SessionName(type) ==
    IF type = "train" THEN Ok("session_T")
    ELSE IF type = "test" THEN Ok("session_E")
    ELSE Raise("ValueError")

\* lines 92-97: the per subject lists become arrays
HandmadeReturn(trials, labels, chs, ragged_object) ==
    LET tps == NpAsarray(trials, ragged_object)
        lps == NpAsarray(labels, ragged_object)
    IN IF tps.status # "ok" THEN Raise(tps.status)
       ELSE IF lps.status # "ok" THEN Raise(lps.status)
       ELSE IF chs = <<>> THEN Raise("UnboundLocalError")
       ELSE [status |-> "ok", trials_per_subject |-> tps.value,
             labels_per_subject |-> lps.value, ch_list |-> chs[1]]

\* --------------------------------------------- get_moabb_data_automatic
\* lines 34-42: the paradigm takes its settings from config
ParadigmSettings(par, cfg) ==
    LET p1 == IF cfg.resample_data THEN [par EXCEPT !.resample = cfg.resample_freq] ELSE par
        p2 == IF cfg.filter_data THEN [p1 EXCEPT !.fmin = cfg.fmin, !.fmax = cfg.fmax] ELSE p1
        p3 == IF "baseline" \in DOMAIN cfg THEN [p2 EXCEPT !.baseline = cfg.baseline] ELSE p2
    IN [p3 EXCEPT !.n_classes = cfg.n_classes]

\* paradigm.get_data: one epoch per event of every session of the subjects,
\* with its label and, in info, the session it comes from
SessionEpochs(session, name) ==
    Concat([r \in 1..Len(session) |->
              [i \in 1..Len(session[r].onsets) |->
                  [epoch |-> <<session[r].id, session[r].onsets[i]>>,
                   label |-> session[r].labels[i], session |-> name]]])

ParadigmGetData(ds, subjects) ==
    Concat([k \in 1..Len(subjects) |->
              SessionEpochs(ds.store[subjects[k]].session_T, "session_T")
              \o SessionEpochs(ds.store[subjects[k]].session_E, "session_E")])

\* a[mask] for a boolean mask over the first axis
RECURSIVE SelectMask(_, _)
SelectMask(a, mask) ==
    IF a = <<>> THEN <<>>
    ELSE (IF Head(mask) THEN <<Head(a)>> ELSE <<>>) \o SelectMask(Tail(a), Tail(mask))

\* lines 47-56: the epochs of the split asked for
AutomaticSelect(epochs, type) ==
    LET session == [i \in 1..Len(epochs) |-> epochs[i].session]
        raw_labels == [i \in 1..Len(epochs) |-> epochs[i].label]
        raw_epochs == [i \in 1..Len(epochs) |-> epochs[i].epoch]
        idx(name) == [i \in 1..Len(epochs) |-> session[i] = name]
    IN IF type = "train"
       THEN [status |-> "ok", raw_data |-> SelectMask(raw_epochs, idx("session_T")),
             raw_labels |-> SelectMask(raw_labels, idx("session_T"))]
       ELSE IF type = "test"
       THEN [status |-> "ok", raw_data |-> SelectMask(raw_epochs, idx("session_E")),
             raw_labels |-> SelectMask(raw_labels, idx("session_E"))]
       ELSE Raise("UnboundLocalError")

\* ------------------------------------------------------ floating point
\* The samples are floats.  A float is modelled as a non negative integer
\* with FloatBits significant bits: every integer below 2^FloatBits, and
\* above it the multiples of the unit of their binade.  An operation returns
\* the float nearest to the exact result, a tie going to the even significand.
NaN == -1

RECURSIVE Ulp(_)
Ulp(x) == IF x < 2 ^ FloatBits THEN 1 ELSE 2 * Ulp(x \div 2)

\* the float nearest to p / q
RoundRatio(p, q) ==
    LET u == Ulp(p \div q)
        lo == u * ((p \div q) \div u)
    IN IF 2 * (p - lo * q) < u * q THEN lo
       ELSE IF 2 * (p - lo * q) > u * q THEN lo + u
       ELSE IF (lo \div u) % 2 = 0 THEN lo ELSE lo + u

FlAdd(a, b) == RoundRatio(a + b, 1)
FlDiv(a, n) == RoundRatio(a, n)

\* np.add.reduce over a sequence: the elements added one after the other
RECURSIVE FlSumFrom(_, _)
FlSumFrom(acc, xs) == IF xs = <<>> THEN acc ELSE FlSumFrom(FlAdd(acc, Head(xs)), Tail(xs))

\* the first trial of the label taken for the average of all of them
MeanOfFirst(xs) == IF xs = <<>> THEN NaN ELSE Head(xs)

\* ndarray.mean of the values xs: their sum over their number (NaN of none)
Mean(xs) == IF xs = <<>> THEN NaN ELSE FlDiv(FlSumFrom(Head(xs), Tail(xs)), Len(xs))

\* -------------------------------------------------- extract_data_to_plot
\* a[mask] for a boolean mask over the first axis
MaskFirst(a, mask) ==
    LET rest == Prod(Tail(a.shape))
        rows == SelectMask([i \in 1..a.shape[1] |-> i], mask)
    IN NdArray(<<Len(rows)>> \o Tail(a.shape),
               Concat([k \in 1..Len(rows) |->
                          SubSeq(a.data, (rows[k] - 1) * rest + 1, rows[k] * rest)]))

\* a[b] for a single Python bool b: a new first axis of length 1 or 0
BoolIndex(a, b) == NdArray(<<IF b THEN 1 ELSE 0>> \o a.shape, IF b THEN a.data ELSE <<>>)

\* a.squeeze(): the axes of length 1 dropped
Squeeze(a) == NdArray(SelectMask(a.shape, [i \in 1..Len(a.shape) |-> a.shape[i] # 1]), a.data)

\* a.mean(0) for a three dimensional array
MeanAxis0(a) ==
    LET rest == a.shape[2] * a.shape[3]
    IN NdArray(Tail(a.shape),
               [k \in 1..rest |-> Mean([n \in 1..a.shape[1] |-> a.data[(n - 1) * rest + k]])])

\* ch_list == ch: elementwise for an array of names, a plain False for a list
\* compared with a string
NamesEqual(chs, ch) ==
    IF chs.kind = "ndarray"
    THEN [kind |-> "mask", mask |-> [c \in 1..Len(chs.names) |-> chs.names[c] = ch]]
    ELSE [kind |-> "bool", bool |-> FALSE]

\* average_per_label[idx_ch].squeeze()
ChannelOf(average_per_label, idx_ch) ==
    IF idx_ch.kind = "mask"
    THEN Squeeze(MaskFirst(average_per_label, idx_ch.mask))
    ELSE Squeeze(BoolIndex(average_per_label, idx_ch.bool))

\* lines 243-247: the average of the trials that carry the label
AveragePerLabel(d, labels, label) ==
    MeanAxis0(MaskFirst(d, [n \in 1..Len(labels.data) |-> labels.data[n] = label]))

extract_data_to_plot(d, chs, labels, cfg) ==
    [i \in 1..Len(cfg.label_to_plot) |->
        [j \in 1..Len(cfg.ch_to_plot) |->
            ChannelOf(AveragePerLabel(d, labels, cfg.label_to_plot[i]),
                      NamesEqual(chs, cfg.ch_to_plot[j]))]]

\* lines 200-209
config_plot == [figsize |-> <<15, 10>>, ch_to_plot |-> <<"C3", "Cz", "C4">>,
                label_to_plot |-> <<0, 1, 2>>]

\* ---------------------------------------------------------- compute_stft
\* scipy.signal.stft(x, fs, nperseg) with its defaults (hann window,
\* noverlap = nperseg // 2, nfft = nperseg, boundary = 'zeros', padded) for
\* a one dimensional x of n samples.  Of the transform the model keeps the
\* shape [frequency-bins x time-frames] and the window length used: an
\* nperseg longer than x is replaced by the length of x (with a warning),
\* and an empty x gives an empty transform.
signal_stft(n, fs, nperseg) ==
    IF n = 0 THEN Ok([shape |-> <<0>>, window |-> 0])
    ELSE IF nperseg < 1 THEN Raise("ValueError")
    ELSE LET w == Min(nperseg, n)
             noverlap == w \div 2
             nstep == w - noverlap
             extended == n + 2 * (w \div 2)
             nadd == ((nstep - ((extended - w) % nstep)) % nstep) % w
         IN Ok([shape |-> <<w \div 2 + 1, (extended + nadd - noverlap) \div nstep>>,
                window |-> w])

\* lines 179-180 shifted: the trial index taken as the first sample of x
TransformFromTrialIndex(tm, sampling_freq, i, j) ==
    signal_stft(Max(0, tm.shape[3] - (i - 1)), sampling_freq, sampling_freq)

\* lines 179-180: x = trials_matrix[i, j] and its transform
Transform(tm, sampling_freq, i, j) ==
    signal_stft(tm.shape[3], sampling_freq, sampling_freq)

\* np.asarray of the list (one per trial) of lists (one per channel) of
\* transforms: an array when every list has the same length and every
\* transform the same shape
StftAsarray(lists) ==
    IF lists = <<>> THEN Ok([shape |-> <<0>>, transforms |-> lists])
    ELSE IF lists[1] = <<>> THEN Ok([shape |-> <<Len(lists), 0>>, transforms |-> lists])
    ELSE IF \A i \in 1..Len(lists) : \A j \in 1..Len(lists[i]) :
                lists[i][j].shape = lists[1][1].shape
         THEN Ok([shape |-> <<Len(lists), Len(lists[1])>> \o lists[1][1].shape,
                  transforms |-> lists])
    ELSE Raise("ValueError")

compute_stft(tm, sampling_freq) ==
    LET calls == [i \in 1..tm.shape[1] |->
                     [j \in 1..tm.shape[2] |-> Transform(tm, sampling_freq, i, j)]]
    IN IF \E i \in 1..tm.shape[1] : \E j \in 1..tm.shape[2] : calls[i][j].status # "ok"
       THEN Raise("ValueError")
       ELSE StftAsarray([i \in 1..tm.shape[1] |->
                            [j \in 1..tm.shape[2] |-> calls[i][j].value]])

\* ------------------------------------------------------------ input sets
Channels == 1..2
SamplingFreqs == 1..2
TrialLengths == 1..MaxLenNum

\* strictly increasing onsets inside a recording of n samples
RECURSIVE SetToSeq(_)
SetToSeq(S) ==
    IF S = {} THEN <<>>
    ELSE LET m == CHOOSE x \in S : \A y \in S : x <= y
         IN <<m>> \o SetToSeq(S \ {m})

EventLists(n) ==
    {SetToSeq(S) : S \in {X \in SUBSET (0..(n - 1)) : Cardinality(X) <= MaxEvents}}

BaseConfig ==
    [subjects_list |-> <<1>>, n_classes |-> 4, filter_data |-> FALSE, fmin |-> 4, fmax |-> 40,
     resample_data |-> FALSE, resample_freq |-> 128, length_trial |-> 1]

\* the variables of extract_data_to_plot while no such call is made
NoPlotCall ==
    /\ plot_data = Idle /\ plot_labels = Idle /\ plot_ch_list = Idle /\ plot_config = Idle
    /\ perm = <<>> /\ extracted_data = <<>> /\ extracted_perm = <<>>

\* the variables of compute_stft while no such call is made
NoStftCall == stft_trials = Idle /\ stft_freq = 0 /\ stft_out = <<>>

\* the variables of get_moabb_data_* while no such call is made
NoDataCall ==
    /\ dataset = Idle /\ paradigm = Idle /\ type_dataset = Idle /\ fetched = FALSE
    /\ raw_dataset = Idle /\ subject_i = 0
    /\ trials_per_subject = <<>> /\ labels_per_subject = <<>> /\ ch_list = <<>>

\* a recording and its stim channel: onsets (strictly increasing) and labels
NewRaw(id, n_ch, n_samples, sfreq, onsets, labels) ==
    [id |-> id, n_ch |-> n_ch, n_samples |-> n_samples, sfreq |-> sfreq,
     filtered |-> FALSE, onsets |-> onsets, labels |-> labels]

Labels == 1..2

\* the runs a session can hold at position id
RunsOf(id, n_ch, lens, freqs, labelSet) ==
    UNION {{NewRaw(id, n_ch, n, f, ev, lb) :
               f \in freqs, lb \in [1..Len(ev) -> labelSet]} :
           <<n, ev>> \in {ne \in lens \X UNION {EventLists(m) : m \in lens} :
                              ne[2] \in EventLists(ne[1])}}

\* a session: the runs of a dict, in insertion order, with the same channels
SessionsOf(first_id, n_ch, counts, lens, freqs, labelSet) ==
    UNION {{s \in [1..k -> UNION {RunsOf(first_id + i, n_ch, lens, freqs, labelSet) : i \in 0..(k - 1)}] :
               \A i \in 1..k : s[i].id = first_id + i - 1} : k \in counts}

RunCounts == 0..2

\* a config as the caller holds it: with or without a 'sampling_freq' left
\* by an earlier call
Configs ==
    LET base == {[BaseConfig EXCEPT !.length_trial = lt, !.filter_data = fd] :
                    lt \in TrialLengths, fd \in BOOLEAN}
    IN base \cup {DictSet(b, "sampling_freq", 3) : b \in base}

\* what a dataset holds for a subject: the runs of `template` (runs of
\* MaxRunSamples samples recorded at rate 2), told apart by
\* their ids, with labels that alternate from event to event
Retag(template, base) ==
    [r \in 1..Len(template) |->
        [template[r] EXCEPT !.id = base + r,
                            !.labels = [i \in 1..Len(template[r].onsets) |->
                                           ((base + r + i) % 2) + 1]]]

Subjects == 1..2

Datasets ==
    {[class_name |-> name, n_ch |-> c,
      store |-> [sub \in Subjects |->
                    [session_T |-> Retag(template, 10 * sub),
                     session_E |-> Retag(template, 10 * sub + 5)]]] :
        name \in ClassNames,
        c \in {2, DataChannels, DataChannels + 1},
        template \in SessionsOf(1, 1, RunCounts, {MaxRunSamples}, {2}, {1})}

WithChannels(ds) ==
    [ds EXCEPT !.store = [sub \in Subjects |->
        [session_T |-> [r \in 1..Len(ds.store[sub].session_T) |->
                           [ds.store[sub].session_T[r] EXCEPT !.n_ch = ds.n_ch]],
         session_E |-> [r \in 1..Len(ds.store[sub].session_E) |->
                           [ds.store[sub].session_E[r] EXCEPT !.n_ch = ds.n_ch]]]]]

SubjectLists == {<<>>, <<1>>, <<2, 1>>}

DataConfigs ==
    {[BaseConfig EXCEPT !.subjects_list = sl, !.length_trial = lt] :
        sl \in SubjectLists, lt \in TrialLengths}

DefaultParadigm == [resample |-> 0, fmin |-> 8, fmax |-> 32, baseline |-> 0, n_classes |-> 0]

\* -------------------------------------------- specification: one run cut
InitDivide ==
    /\ pc = "divide"
    /\ ragged \in BOOLEAN
    /\ \E c \in Channels, n \in 1..MaxSamples, f \in SamplingFreqs :
          raw_run = NewRaw(1, c, n, f, <<>>, <<>>)
    /\ events \in EventLists(raw_run.n_samples)
    /\ raw_data = Idle /\ run_i = 0 /\ trials_matrix_list = <<>> /\ label_list = <<>>
    /\ n_trials = 0 /\ freq_read = <<>>
    /\ NoDataCall /\ NoPlotCall /\ NoStftCall
    /\ \E lt \in TrialLengths :
          \/ config = [BaseConfig EXCEPT !.length_trial = lt]
          \/ \E f \in SamplingFreqs :
                config = ("sampling_freq" :> f) @@ [BaseConfig EXCEPT !.length_trial = lt]
    /\ result = Idle

CallDivide ==
    /\ pc = "divide"
    /\ result' = divide_by_event(raw_run, events, config, ragged)
    /\ pc' = "done"
    /\ UNCHANGED <<config, raw_run, events, ragged, trialVars, dataVars, plotVars, stftVars>>

NextDivide == CallDivide

SpecDivide == InitDivide /\ [][NextDivide]_vars

\* ------------------------------------- specification: get_trial_handmade
StateOf ==
    [raw_data |-> raw_data, config |-> config, trials_matrix_list |-> trials_matrix_list,
     label_list |-> label_list, n_trials |-> n_trials,
     raw_data_actual_run |-> IF run_i = 0 THEN <<>> ELSE <<raw_data[run_i]>>,
     freq_read |-> freq_read, status |-> "ok"]

InitTrial ==
    /\ pc = "runs"
    /\ ragged \in BOOLEAN
    /\ \E c \in Channels : raw_data \in SessionsOf(1, c, RunCounts, 1..MaxRunSamples, SamplingFreqs, Labels)
    /\ config \in Configs
    /\ raw_run = Idle /\ events = <<>>
    /\ run_i = 0 /\ trials_matrix_list = <<>> /\ label_list = <<>>
    /\ n_trials = 0 /\ freq_read = <<>>
    /\ NoDataCall /\ NoPlotCall /\ NoStftCall
    /\ result = Idle

\* one iteration of `for run in raw_data`
RunIteration ==
    /\ pc = "runs"
    /\ run_i < Len(raw_data)
    /\ LET st == TrialLoopBody(StateOf, run_i + 1, ragged)
       IN /\ raw_data' = st.raw_data
          /\ config' = st.config
          /\ trials_matrix_list' = st.trials_matrix_list
          /\ label_list' = st.label_list
          /\ n_trials' = st.n_trials
          /\ freq_read' = st.freq_read
          /\ run_i' = run_i + 1
          /\ IF st.status = "ok"
             THEN pc' = "runs" /\ result' = result
             ELSE pc' = "done" /\ result' = Raise(st.status)
    /\ UNCHANGED <<raw_run, events, ragged, dataVars, plotVars, stftVars>>

\* the loop is over: lines 133-140
FinishTrials ==
    /\ pc = "runs"
    /\ run_i = Len(raw_data)
    /\ result' = TrialFinish(StateOf, ragged)
    /\ pc' = "done"
    /\ UNCHANGED <<config, raw_run, events, ragged, trialVars, dataVars, plotVars, stftVars>>

NextTrial == RunIteration \/ FinishTrials

SpecTrial == InitTrial /\ [][NextTrial]_vars

\* the same call on sessions of one channel whose events all carry label 1
InitFreq ==
    /\ pc = "runs"
    /\ ragged \in BOOLEAN
    /\ raw_data \in SessionsOf(1, 1, RunCounts, 1..MaxRunSamples, SamplingFreqs, {1})
    /\ config \in Configs
    /\ raw_run = Idle /\ events = <<>>
    /\ run_i = 0 /\ trials_matrix_list = <<>> /\ label_list = <<>>
    /\ n_trials = 0 /\ freq_read = <<>>
    /\ NoDataCall /\ NoPlotCall /\ NoStftCall
    /\ result = Idle

SpecFreq == InitFreq /\ [][NextTrial]_vars

\* ------------------------------------ specification: get_moabb_data_*
Init ==
    /\ pc \in {"handmade", "automatic"}
    /\ ragged \in BOOLEAN
    /\ \E ds \in Datasets : dataset = WithChannels(ds)
    /\ paradigm = DefaultParadigm
    /\ type_dataset \in {"train", "test", "val"}
    /\ config \in DataConfigs
    /\ fetched = FALSE /\ raw_dataset = Idle /\ subject_i = 0
    /\ trials_per_subject = <<>> /\ labels_per_subject = <<>> /\ ch_list = <<>>
    /\ NoPlotCall /\ NoStftCall
    /\ raw_run = Idle /\ events = <<>> /\ raw_data = Idle
    /\ run_i = 0 /\ trials_matrix_list = <<>> /\ label_list = <<>>
    /\ n_trials = 0 /\ freq_read = <<>>
    /\ result = Idle

\* line 64: raw_dataset = dataset.get_data(subjects = config['subjects_list'])
Fetch ==
    /\ pc = "handmade"
    /\ raw_dataset' = [sub \in {config.subjects_list[k] : k \in 1..Len(config.subjects_list)} |->
                          dataset.store[sub]]
    /\ fetched' = TRUE
    /\ pc' = "subjects"
    /\ UNCHANGED <<config, raw_run, events, ragged, trialVars, dataset, paradigm, type_dataset,
                   subject_i, trials_per_subject, labels_per_subject, ch_list, result, plotVars, stftVars>>

\* lines 71-89: one iteration of `for subject in config['subjects_list']`
SubjectIteration ==
    /\ pc = "subjects"
    /\ subject_i < Len(config.subjects_list)
    /\ LET subject == config.subjects_list[subject_i + 1]
           name == SessionName(type_dataset)
       IN IF name.status # "ok"
          THEN /\ pc' = "done"
               /\ result' = Raise(name.status)
               /\ UNCHANGED <<config, raw_dataset, subject_i, trials_per_subject,
                              labels_per_subject, ch_list>>
          ELSE LET call == get_trial_handmade(raw_dataset[subject][name.value], config, ragged)
                   kept == SelectChannels(dataset, call.result)
               IN /\ config' = call.config
                  /\ raw_dataset' = [raw_dataset EXCEPT ![subject][name.value] = call.raw_data]
                  /\ IF call.result.status # "ok"
                     THEN /\ pc' = "done"
                          /\ result' = Raise(call.result.status)
                          /\ UNCHANGED <<subject_i, trials_per_subject, labels_per_subject,
                                         ch_list>>
                     ELSE /\ trials_per_subject' = Append(trials_per_subject, kept.trials_matrix)
                          /\ labels_per_subject' = Append(labels_per_subject, call.result.labels)
                          /\ ch_list' = <<kept.ch_list>>
                          /\ subject_i' = subject_i + 1
                          /\ pc' = "subjects"
                          /\ result' = result
    /\ UNCHANGED <<raw_run, events, ragged, trialVars, dataset, paradigm, type_dataset, fetched,
                   plotVars, stftVars>>

\* lines 92-97
ReturnData ==
    /\ pc = "subjects"
    /\ subject_i = Len(config.subjects_list)
    /\ result' = HandmadeReturn(trials_per_subject, labels_per_subject, ch_list, ragged)
    /\ pc' = "done"
    /\ UNCHANGED <<config, raw_run, events, ragged, trialVars, dataVars, plotVars, stftVars>>

\* get_moabb_data_automatic, lines 34-45
AutomaticFetch ==
    /\ pc = "automatic"
    /\ paradigm' = ParadigmSettings(paradigm, config)
    /\ raw_dataset' = ParadigmGetData(dataset, config.subjects_list)
    /\ fetched' = TRUE
    /\ pc' = "select"
    /\ UNCHANGED <<config, raw_run, events, ragged, trialVars, dataset, type_dataset,
                   subject_i, trials_per_subject, labels_per_subject, ch_list, result, plotVars, stftVars>>

\* get_moabb_data_automatic, lines 47-56
AutomaticReturn ==
    /\ pc = "select"
    /\ result' = AutomaticSelect(raw_dataset, type_dataset)
    /\ pc' = "done"
    /\ UNCHANGED <<config, raw_run, events, ragged, trialVars, dataVars, plotVars, stftVars>>

Next == Fetch \/ SubjectIteration \/ ReturnData \/ AutomaticFetch \/ AutomaticReturn

Spec == Init /\ [][Next]_vars

\* ------------------------------- specification: extract_data_to_plot
\* floats of the samples: one that every sum holds exactly and one large
\* enough for a sum to round
DataValues == {2 ^ (FloatBits + 1), 2 ^ (2 * FloatBits + 1)}

PlotChannels == <<"C3", "Cz", "C4">>

\* trial n holds the values v rotated by its channel and sample
PlotData(v, C, T) ==
    NdArray(<<Len(v), C, T>>,
            [k \in 1..(Len(v) * C * T) |->
                LET n == (k - 1) \div (C * T)
                    c == ((k - 1) \div T) % C
                    t == (k - 1) % T
                IN v[((n + c + t) % Len(v)) + 1]])

TrialOrders(n) == {p \in [1..n -> 1..n] : \A i, j \in 1..n : p[i] = p[j] => i = j}

\* the trials of d, and the labels, in the order p
PermuteTrials(d, p) ==
    LET rest == Prod(Tail(d.shape))
    IN NdArray(d.shape, Concat([k \in 1..Len(p) |->
                                   SubSeq(d.data, (p[k] - 1) * rest + 1, p[k] * rest)]))

PermuteLabels(labels, p) == NdArray(labels.shape, [k \in 1..Len(p) |-> labels.data[p[k]]])

InitPlot ==
    /\ pc = "plot"
    /\ \E N \in 1..MaxPlotTrials, C \in 1..Len(PlotChannels), T \in 1..2 :
          /\ \E v \in [1..N -> DataValues] : plot_data = PlotData(v, C, T)
          /\ \E lb \in [1..N -> Labels] : plot_labels = NdArray(<<N>>, lb)
          /\ perm \in TrialOrders(N)
          /\ \E kind \in {"list", "ndarray"} :
                plot_ch_list = [kind |-> kind, names |-> SubSeq(PlotChannels, 1, C)]
    /\ plot_config = config_plot
    /\ extracted_data = <<>> /\ extracted_perm = <<>>
    /\ config = BaseConfig /\ ragged = FALSE
    /\ raw_run = Idle /\ events = <<>> /\ raw_data = Idle
    /\ run_i = 0 /\ trials_matrix_list = <<>> /\ label_list = <<>>
    /\ n_trials = 0 /\ freq_read = <<>>
    /\ NoDataCall /\ NoStftCall
    /\ result = Idle

\* extract_data_to_plot(data, ch_list, label_list, config)
ExtractData ==
    /\ pc = "plot"
    /\ extracted_data = <<>>
    /\ extracted_data' = <<extract_data_to_plot(plot_data, plot_ch_list, plot_labels, plot_config)>>
    /\ UNCHANGED <<pc, config, raw_run, events, ragged, trialVars, dataVars, plot_data,
                   plot_labels, plot_ch_list, plot_config, perm, extracted_perm, stftVars, result>>

\* the same call on the trials and labels reordered by perm
ExtractPermuted ==
    /\ pc = "plot"
    /\ extracted_perm = <<>>
    /\ extracted_perm' = <<extract_data_to_plot(PermuteTrials(plot_data, perm), plot_ch_list,
                                                PermuteLabels(plot_labels, perm), plot_config)>>
    /\ UNCHANGED <<pc, config, raw_run, events, ragged, trialVars, dataVars, plot_data,
                   plot_labels, plot_ch_list, plot_config, perm, extracted_data, stftVars, result>>

NextPlot == ExtractData \/ ExtractPermuted

SpecPlot == InitPlot /\ [][NextPlot]_vars

\* --------------------------------------- specification: compute_stft
\* a trial tensor of the given shape (the transform's shape does not depend
\* on the samples, which are left 0)
ZeroTrials(N, C, T) == NdArray(<<N, C, T>>, [k \in 1..(N * C * T) |-> 0])

InitStft ==
    /\ pc = "stft"
    /\ \E N \in 1..3, C \in 1..3, T \in 0..MaxStftSamples :
          stft_trials = ZeroTrials(N, C, T)
    /\ stft_freq \in 1..MaxStftFreq
    /\ stft_out = <<>>
    /\ config = BaseConfig /\ ragged = FALSE
    /\ raw_run = Idle /\ events = <<>> /\ raw_data = Idle
    /\ run_i = 0 /\ trials_matrix_list = <<>> /\ label_list = <<>>
    /\ n_trials = 0 /\ freq_read = <<>>
    /\ NoDataCall /\ NoPlotCall
    /\ result = Idle

\* compute_stft(trials_matrix, sampling_freq)
ComputeStft ==
    /\ pc = "stft"
    /\ stft_out' = <<compute_stft(stft_trials, stft_freq)>>
    /\ pc' = "done"
    /\ UNCHANGED <<config, raw_run, events, ragged, trialVars, dataVars, plotVars,
                   stft_trials, stft_freq, result>>

NextStft == ComputeStft

SpecStft == InitStft /\ [][NextStft]_vars

\* ================================================================ claims
\* int(sampling_freq * length_trial) as the claims state it
ClaimTrialLen(f, lt) == (f * lt) \div TimeDen

\* trial i (from 1) of a tensor [trials x channels x samples]
TrialOf(a, i) == SliceFirst(a, i - 1, i)

DivideReturned ==
    /\ pc = "done"
    /\ "sampling_freq" \in DOMAIN config
    /\ events # <<>>

\* the samples the code leaves in window i: up to the next onset, and for
\* the last event up to, not including, the last sample of the recording
CodeWindowLen(i) ==
    IF i = Len(events) THEN raw_run.n_samples - 1 - events[i]
    ELSE events[i + 1] - events[i]

\* the samples of window i as the specification words it: up to the next
\* onset, or up to the end of the recording
SpecWindowLen(i) ==
    IF i = Len(events) THEN raw_run.n_samples - events[i]
    ELSE events[i + 1] - events[i]

\* C1 as stated: divide_by_event returns one trial per event, each of shape
\* (channels, int(sampling_freq * length_trial)), for every run and every
\* strictly increasing list of onsets inside the recording.  (Stated for
\* the lists whose last window holds a whole trial before the final sample
\* of the recording, so that only the windows between two onsets decide.)
C1_EveryTrialFullLength ==
    (/\ DivideReturned
     /\ CodeWindowLen(Len(events)) >=
            ClaimTrialLen(config.sampling_freq, config.length_trial)) =>
        /\ result.status = "ok"
        /\ result.value.shape = <<Len(events), raw_run.n_ch,
                                  ClaimTrialLen(config.sampling_freq, config.length_trial)>>

\* C1 amended: with at least one event, divide_by_event returns exactly when
\* all windows, cut to L = int(sampling_freq * length_trial), keep the same
\* number T of samples, and then returns one trial per event of shape
\* (channels, T), T = min(L, shortest window); so the shape is
\* (events, channels, L) exactly when every window holds at least L samples.
\* Otherwise it raises ValueError.
C1_TrialShape ==
    DivideReturned =>
        LET L == ClaimTrialLen(config.sampling_freq, config.length_trial)
            T(i) == Min(L, CodeWindowLen(i))
        IN IF \A i \in 1..Len(events) : T(i) = T(1)
           THEN /\ result.status = "ok"
                /\ result.value.shape = <<Len(events), raw_run.n_ch, T(1)>>
                /\ (T(1) = L) = (\A i \in 1..Len(events) : CodeWindowLen(i) >= L)
           ELSE result.status = "ValueError"

C1_Witness ==
    /\ DivideReturned
    /\ Len(events) = 2
    /\ result.status = "ok"
    /\ result.value.shape[3] >= 1
    /\ result.value.shape[3] = ClaimTrialLen(config.sampling_freq, config.length_trial)

\* C2: trial i of divide_by_event is run_data[:, events[i] : min(events[i] + L,
\* window_end)], window_end being the next onset, and the recording length
\* for the last event (its final sample included).
C2_TrialIsOnsetWindow ==
    (DivideReturned /\ result.status = "ok") =>
        \A i \in 1..Len(events) :
            LET L == ClaimTrialLen(config.sampling_freq, config.length_trial)
                T == Min(L, SpecWindowLen(i))
            IN TrialOf(result.value, i) =
                 NdArray(<<1, raw_run.n_ch, T>>,
                         [k \in 1..(raw_run.n_ch * T) |->
                             SampleValue(raw_run.id, (k - 1) \div T, events[i] + ((k - 1) % T))])

\* ------------------------------------------------- get_trial_handmade
\* the events of the session in run order, then event order
SessionEvents ==
    Concat([r \in 1..Len(raw_data) |->
              [i \in 1..Len(raw_data[r].onsets) |->
                  [run |-> r, onset |-> raw_data[r].onsets[i], label |-> raw_data[r].labels[i]]]])

RunTrialLen(r) == ClaimTrialLen(raw_data[r].sfreq, config.length_trial)

RunCodeWindowLen(r, i) ==
    IF i = Len(raw_data[r].onsets) THEN raw_data[r].n_samples - 1 - raw_data[r].onsets[i]
    ELSE raw_data[r].onsets[i + 1] - raw_data[r].onsets[i]

RunSpecWindowLen(r, i) ==
    IF i = Len(raw_data[r].onsets) THEN raw_data[r].n_samples - raw_data[r].onsets[i]
    ELSE raw_data[r].onsets[i + 1] - raw_data[r].onsets[i]

\* a session every run of which has events, the same rate, and windows that
\* all hold a whole trial of at least one sample
FullWindows ==
    /\ Len(raw_data) >= 1
    /\ \A r \in 1..Len(raw_data) :
          /\ raw_data[r].onsets # <<>>
          /\ raw_data[r].sfreq = raw_data[1].sfreq
          /\ RunTrialLen(r) >= 1
          /\ \A i \in 1..Len(raw_data[r].onsets) : RunCodeWindowLen(r, i) >= RunTrialLen(r)

\* the value the first channel holds at sample s of run r, as the call left it
FirstChannelAt(r, s) ==
    IF raw_data[r].filtered THEN Filtered(SampleValue(raw_data[r].id, 0, s))
    ELSE SampleValue(raw_data[r].id, 0, s)

\* C3: for a session with any number of runs, each with any number of
\* events, get_trial_handmade returns as many trials as the runs have events
\* and as many labels, trial k cut at event k and label k the label of event
\* k, in run order then event order.  (Stated for the sessions whose runs all
\* have events, one rate and whole windows.)
C3_TrialsAndLabelsAligned ==
    (pc = "done" /\ FullWindows) =>
        /\ result.status = "ok"
        /\ result.trials_matrix.shape[1] = Len(SessionEvents)
        /\ result.labels.shape = <<Len(SessionEvents)>>
        /\ \A k \in 1..Len(SessionEvents) :
              /\ result.labels.data[k] = SessionEvents[k].label
              /\ TrialOf(result.trials_matrix, k).data # <<>> =>
                    TrialOf(result.trials_matrix, k).data[1] =
                        FirstChannelAt(SessionEvents[k].run, SessionEvents[k].onset)

\* C5: when a window (to the next onset, or to the end of the recording)
\* holds fewer than sampling_freq * length_trial samples, segmentation ends
\* in an error and never returns a tensor of shorter trials.
C5_ShortWindowRaises ==
    (/\ pc = "done"
     /\ \E r \in 1..Len(raw_data) : \E i \in 1..Len(raw_data[r].onsets) :
           RunSpecWindowLen(r, i) < RunTrialLen(r)) =>
        result.status # "ok"

\* C10: every run's own rate is in config['sampling_freq'] when
\* divide_by_event reads it (never an earlier run's rate, never a missing
\* key); 'sampling_freq' is the only key of config the call changes; and
\* config['sampling_freq'] ends as the rate of the last run processed.
C10_RateWrittenBeforeRead ==
    /\ [](/\ Len(freq_read) = run_i
          /\ \A r \in 1..run_i :
                freq_read[r] = [present |-> TRUE, value |-> raw_data[r].sfreq]
          /\ run_i >= 1 => config.sampling_freq = raw_data[run_i].sfreq)
    /\ [][/\ DOMAIN config' \subseteq DOMAIN config \cup {"sampling_freq"}
           /\ \A k \in DOMAIN config \ {"sampling_freq"} :
                 k \in DOMAIN config' /\ config'[k] = config[k]]_vars

C10_Witness ==
    /\ pc = "done"
    /\ run_i = 2
    /\ raw_data[1].sfreq # raw_data[2].sfreq
    /\ raw_data[1].onsets # <<>> /\ raw_data[2].onsets # <<>>
    /\ result.status = "ok"
    /\ config.sampling_freq = raw_data[2].sfreq

\* --------------------------------------------- get_moabb_data_handmade
\* C4: a type_dataset other than 'train' and 'test' fails fast: the call
\* ends in the invalid-argument error (ValueError), whatever the config,
\* before any data is fetched and before any subject is segmented.
C4_InvalidTypeFailsFast ==
    type_dataset \notin {"train", "test"} =>
        /\ ~fetched
        /\ subject_i = 0
        /\ pc = "done" => result.status = "ValueError"

\* element (n, c, t), counted from 1, of a tensor [trials x channels x samples]
El3(a, n, c, t) == a.data[((n - 1) * a.shape[2] + (c - 1)) * a.shape[3] + t]

\* what the segmenter produces for the k-th subject of the list
Segmented(k) ==
    get_trial_handmade(
        dataset.store[config.subjects_list[k]][SessionName(type_dataset).value],
        config, ragged).result

KeptChannels == IF dataset.class_name = "BNCI2014001" THEN Min(DataChannels, dataset.n_ch)
                ELSE dataset.n_ch

\* subject k's tensor `kept` is the segmenter's tensor, cut to its first
\* KeptChannels channels, trials and samples as they were
KeepsFirstChannels(kept, seg) ==
    /\ kept.shape = <<seg.shape[1], KeptChannels, seg.shape[3]>>
    /\ \A n \in 1..seg.shape[1], c \in 1..KeptChannels, t \in 1..seg.shape[3] :
          El3(kept, n, c, t) = El3(seg, n, c, t)

\* C9: for BNCI2014001 every subject's trial tensor is cut to its first 22
\* channels and the channel names to the first 22, trials, samples and labels
\* unchanged; for another dataset both are as the segmenter produced them;
\* either way there is one returned name per channel of the returned tensors.
C9_DataChannelsKept ==
    /\ \A k \in 1..Len(trials_per_subject) :
          /\ KeepsFirstChannels(trials_per_subject[k], Segmented(k).trials_matrix)
          /\ labels_per_subject[k] = Segmented(k).labels
    /\ ch_list # <<>> =>
          /\ ch_list[1] = SubSeq(Segmented(Len(trials_per_subject)).ch_names, 1, KeptChannels)
          /\ Len(ch_list[1]) = trials_per_subject[Len(trials_per_subject)].shape[2]
    /\ (pc = "done" /\ ch_list # <<>> /\ result.status = "ok") =>
          /\ result.ch_list = ch_list[1]
          /\ result.trials_per_subject.shape[1] = Len(config.subjects_list)
          /\ result.trials_per_subject.shape[3] = Len(result.ch_list)
          /\ result.trials_per_subject.data =
                Concat([k \in 1..Len(trials_per_subject) |-> trials_per_subject[k].data])
          /\ result.labels_per_subject.data =
                Concat([k \in 1..Len(config.subjects_list) |-> Segmented(k).labels.data])

C9_Witness ==
    /\ pc = "done" /\ ch_list # <<>> /\ result.status = "ok"
    /\ dataset.class_name = "BNCI2014001"
    /\ dataset.n_ch > DataChannels
    /\ Len(config.subjects_list) = 2
    /\ result.trials_per_subject.shape[2] >= 2
    /\ result.trials_per_subject.shape[3] = DataChannels
    /\ result.trials_per_subject.shape[4] >= 2
    /\ Len(result.ch_list) = DataChannels


\* ------------------------------------------------------------- C6, C7
\* the samples d[n, c, t] of the trials n that carry the label, in trial order
LabelValues(d, labels, label, c, t) ==
    SelectMask([n \in 1..d.shape[1] |-> d.data[(n - 1) * d.shape[2] * d.shape[3]
                                                + (c - 1) * d.shape[3] + t]],
               [n \in 1..d.shape[1] |-> labels.data[n] = label])

RECURSIVE ExactSum(_)
ExactSum(xs) == IF xs = <<>> THEN 0 ELSE Head(xs) + ExactSum(Tail(xs))

Abs(x) == IF x < 0 THEN 0 - x ELSE x

PlotSamples == plot_data.shape[3]

\* the (label, channel) pairs of the configuration whose channel is the row
\* c of the channel names
PlotPairs ==
    {q \in (1..Len(plot_config.label_to_plot)) \X (1..Len(plot_config.ch_to_plot))
          \X (1..Len(plot_ch_list.names)) :
        plot_ch_list.names[q[3]] = plot_config.ch_to_plot[q[2]]}

PlotValues(q, t) ==
    LabelValues(plot_data, plot_labels, plot_config.label_to_plot[q[1]], q[3], t)

\* C6: for a channel-name list, extract_data_to_plot returns one entry per
\* (label, channel) pair of the configuration, in its order, and the entry of
\* a channel named in the list is the mean, over the trials that carry the
\* label, of that channel's row.
C6_EntryIsChannelMean ==
    (extracted_data # <<>> /\ plot_ch_list.kind = "list") =>
        LET out == extracted_data[1]
        IN /\ Len(out) = Len(plot_config.label_to_plot)
           /\ \A i \in 1..Len(out) : Len(out[i]) = Len(plot_config.ch_to_plot)
           /\ \A q \in PlotPairs :
                 PlotValues(q, 1) # <<>> =>
                     out[q[1]][q[2]].data = [t \in 1..PlotSamples |-> Mean(PlotValues(q, t))]

\* C7 as stated: the averages returned for the reordered trials and labels
\* are the same as for the original order.
C7_SameAverages ==
    (extracted_data # <<>> /\ extracted_perm # <<>>) => extracted_perm = extracted_data

\* two averages of the same values xs taken in different orders: equal when
\* no order of additions can differ, and never further apart than twice the
\* rounding of Len(xs) operations on the magnitudes of xs
WithinRounding(a, b, xs) ==
    /\ (a = NaN) = (b = NaN)
    /\ Len(xs) <= 2 => a = b
    /\ Abs(a - b) * (2 ^ FloatBits - Len(xs)) <= 2 * ExactSum(xs)

\* C7, amended: the entries returned for the reordered trials and labels have
\* the shapes of the entries for the original order and hold the same
\* averages up to the rounding of the sums taken in another order.
C7_AveragesWithinRounding ==
    (extracted_data # <<>> /\ extracted_perm # <<>>) =>
        LET a == extracted_data[1]
            b == extracted_perm[1]
        IN /\ Len(a) = Len(b)
           /\ \A i \in 1..Len(a) :
                 /\ Len(a[i]) = Len(b[i])
                 /\ \A j \in 1..Len(a[i]) :
                       /\ a[i][j].shape = b[i][j].shape
                       /\ Len(a[i][j].data) = Len(b[i][j].data)
                       /\ a[i][j].data # <<>> =>
                             \E q \in PlotPairs :
                                 /\ q[1] = i /\ q[2] = j
                                 /\ \A t \in 1..PlotSamples :
                                       WithinRounding(a[i][j].data[t], b[i][j].data[t],
                                                      PlotValues(q, t))

\* both orders are extracted and an average of three trials or more came out
\* differently
C7_Witness ==
    /\ extracted_data # <<>> /\ extracted_perm # <<>>
    /\ plot_ch_list.kind = "ndarray"
    /\ \E q \in PlotPairs :
          /\ Len(PlotValues(q, 1)) >= 3
          /\ extracted_data[1][q[1]][q[2]].data # extracted_perm[1][q[1]][q[2]].data

\* ----------------------------------------------------------------- C8
StftReturned == stft_out # <<>>

\* the transforms of a returned tensor all have the shape <<F, K>> and the
\* tensor the shape [trials x channels x F x K]
UniformTensor(out, F, K) ==
    /\ out.status = "ok"
    /\ out.value.shape = <<stft_trials.shape[1], stft_trials.shape[2], F, K>>
    /\ Len(out.value.transforms) = stft_trials.shape[1]
    /\ \A i \in 1..stft_trials.shape[1] :
          /\ Len(out.value.transforms[i]) = stft_trials.shape[2]
          /\ \A j \in 1..stft_trials.shape[2] :
                out.value.transforms[i][j].shape = <<F, K>>

WindowOf(out, w) ==
    \A i \in 1..stft_trials.shape[1] : \A j \in 1..stft_trials.shape[2] :
        out.value.transforms[i][j].window = w

\* C8 as stated: for trials of at least one sample, compute_stft returns one
\* transform per (trial, channel) pair, all of the same numbers of frequency
\* bins and time frames, in a tensor [trials x channels x bins x frames],
\* each computed with a window as long as the sampling rate.
C8_UniformWithRateWindow ==
    (StftReturned /\ stft_trials.shape[3] >= 1) =>
        /\ \E F \in 1..(MaxStftFreq + 2), K \in 1..(2 * MaxStftSamples + 4) :
              UniformTensor(stft_out[1], F, K)
        /\ WindowOf(stft_out[1], stft_freq)

\* C8, amended: the same, the window being as long as the sampling rate when
\* the trial holds that many samples and as long as the trial otherwise.
C8_UniformWithClampedWindow ==
    (StftReturned /\ stft_trials.shape[3] >= 1) =>
        /\ \E F \in 1..(MaxStftFreq + 2), K \in 1..(2 * MaxStftSamples + 4) :
              UniformTensor(stft_out[1], F, K)
        /\ WindowOf(stft_out[1], Min(stft_freq, stft_trials.shape[3]))

\* several trials and channels are transformed, of trials shorter than the
\* sampling rate
C8_Witness ==
    /\ StftReturned
    /\ stft_trials.shape[1] >= 2 /\ stft_trials.shape[2] >= 2
    /\ stft_trials.shape[3] >= 2 /\ stft_trials.shape[3] < stft_freq
    /\ stft_out[1].status = "ok"
    /\ Len(stft_out[1].value.shape) = 4

====
